---- MODULE Spec2Model ----
(***************************************************************************)
(* The motion-metrics engine of sai-talent-assessment: PoseProcessor       *)
(* (src/pose_processor.py) and the Flask routes that drive it (src/app.py). *)
(*                                                                         *)
(* Numbers.  counter['count'] is a Python float that only ever receives    *)
(* += 0.5, so it is kept here in units of half a repetition (exact for     *)
(* binary floats); int(count) is then count \div 2.  Angles, pixel         *)
(* distances and clock readings are integers, so int(x) of a metric is x.  *)
(* Python's None is the string "None" for an exercise kind and -1 for the  *)
(* two optional numbers (start_time, baseline), whose real values are >= 0. *)
(***************************************************************************)
EXTENDS Integers, Sequences, FiniteSets, TLC

VARIABLES
    counters,          \* PoseProcessor.counters: kind -> the dict stored for it
    current_exercise,  \* app.py global
    session_data,      \* app.py session_data['exercises']: key -> [metrics]; the
                       \* timestamp strings stored beside the metrics are left out
    clock,             \* what time.time() / datetime.now() returns
    frames_read,       \* frames the camera has delivered so far
    gen,               \* stream -> the locals of its generate_frames generator
    orphans,           \* dicts no longer stored in counters but still bound to a local
    tape               \* frames the camera will deliver (scripted runs only)

vars == <<counters, current_exercise, session_data, clock, frames_read, gen,
          orphans, tape>>

----------------------------------------------------------------------------
(* Bounds of the model *)

\* Spec: frames the camera delivers, and the latest clock reading
MaxFrames == 2
MaxTime == 1
\* SessionSpec: the same, for a session that stays with one exercise
MaxSession == 5
MaxSessionTime == 3
\* ScriptSpec: length of a scripted camera tape
MaxTape == 6
\* TimedSpec: the latest instant at which the camera delivers a frame
MaxInstant == 4
\* AngleSpec: the largest pixel coordinate of a landmark
MaxCoord == 2
\* SwitchSpec: selection requests that arrive while the stream is open
MaxRequests == 2
\* ConcSpec: streams open at once, and frames the camera delivers to them
NStreams == 2
MaxConcFrames == 3

----------------------------------------------------------------------------
(* Values *)

None == "None"
NoNumber == -1

RepKinds == {"jumping_jacks", "push_ups", "sit_ups"}
Kinds == RepKinds \cup {"plank", "vertical_jump"}
\* What data.get('exercise') can deliver: a known kind, nothing, or another string.
Unrecognized == "squats"
Requested == Kinds \cup {None, Unrecognized}

Streams == 1..NStreams

EmptyMetrics == [f \in {} |-> 0]

\* 0.5, in units of half a repetition
Half == 1

\* A frame as the processors see it: whether mediapipe found a pose, and the
\* quantities the code derives from the landmarks.
\*   left_arm_up / right_arm_up : wrist.y < shoulder.y on that side
\*   hip_distance               : abs(right_hip.x - left_hip.x) * w
\*   arm_angle                  : calculate_angle(shoulder, elbow, wrist)
\*   body_angle                 : calculate_angle(shoulder, hip, knee)
\*   ankle_angle                : calculate_angle(shoulder, hip, ankle)
\*   hip_y                      : (landmarks[23].y + landmarks[24].y) / 2 * h
NoPose ==
    [detected |-> FALSE, left_arm_up |-> FALSE, right_arm_up |-> FALSE,
     hip_distance |-> 0, arm_angle |-> 0, body_angle |-> 0, ankle_angle |-> 0,
     hip_y |-> 0]

Pose == [NoPose EXCEPT !.detected = TRUE]

HipDistances == {100, 101}
ArmAngles == {89, 90, 160, 161}
BodyAngles == {89, 90, 150, 151, 160, 161}
AnkleAngles == {160, 161, 180}
HipYs == {70, 75, 80, 85, 95, 100}

\* The frames that differ in something process_frame reads when it is called
\* with exercise k; what it does not read is left at NoPose's value.
FramesFor(k) ==
    {NoPose} \cup
    CASE k = "jumping_jacks" ->
           {[Pose EXCEPT !.left_arm_up = l, !.right_arm_up = r, !.hip_distance = d] :
               l \in BOOLEAN, r \in BOOLEAN, d \in HipDistances}
      [] k = "push_ups" ->
           {[Pose EXCEPT !.arm_angle = a, !.body_angle = b] :
               a \in ArmAngles, b \in {160, 161}}
      [] k = "sit_ups" ->
           {[Pose EXCEPT !.body_angle = b] : b \in BodyAngles \ {160, 161}}
      [] k = "plank" ->
           {[Pose EXCEPT !.ankle_angle = a] : a \in AnkleAngles}
      [] k = "vertical_jump" ->
           {[Pose EXCEPT !.hip_y = y] : y \in HipYs}
      [] OTHER -> {Pose}

----------------------------------------------------------------------------
(* PoseProcessor *)

\* __init__: self.counters
InitCounters ==
    [k \in Kinds |->
        CASE k \in RepKinds -> [count |-> 0, direction |-> 0]
          [] k = "plank" -> [start_time |-> NoNumber, elapsed |-> 0, total |-> 0]
          [] k = "vertical_jump" -> [baseline |-> NoNumber, max_height |-> 0, jumps |-> 0]]

\* The phase a frame's count logic tests for (`if counter['direction'] == ...`):
\* 0 in the branch that opens, 1 in the branch that closes, NoNumber when the
\* frame enters neither branch.
arms_up(f) == f.left_arm_up /\ f.right_arm_up

legs_spread(f) == f.hip_distance > 100

jumping_jacks_branch_either(f) ==
    IF arms_up(f) \/ legs_spread(f) THEN 0 ELSE 1

jumping_jacks_branch(f) ==
    IF arms_up(f) /\ legs_spread(f) THEN 0 ELSE 1

\* Push-up thresholds that include their bounds.
push_ups_branch_inclusive(f) ==
    IF f.arm_angle <= 90 THEN 0 ELSE IF f.arm_angle >= 160 THEN 1 ELSE NoNumber

push_ups_branch(f) ==
    IF f.arm_angle < 90 THEN 0 ELSE IF f.arm_angle > 160 THEN 1 ELSE NoNumber

sit_ups_branch(f) ==
    IF f.body_angle < 90 THEN 0 ELSE IF f.body_angle > 150 THEN 1 ELSE NoNumber

branch(k, f) ==
    CASE k = "jumping_jacks" -> jumping_jacks_branch(f)
      [] k = "push_ups" -> push_ups_branch(f)
      [] k = "sit_ups" -> sit_ups_branch(f)

\* The half-step of a branch: count += 0.5 and the phase flips to `to`.
RepStepBackwards(counter, to) ==
    [count |-> counter.count - Half, direction |-> to]

\* A branch that counts a whole repetition at once.
RepStepWhole(counter, to) ==
    [count |-> counter.count + Half + Half, direction |-> to]

RepStep(counter, to) ==
    [count |-> counter.count + Half, direction |-> to]

\* The count logic of the three repetition machines, given the phase the
\* frame's branch tests for.
count_logic(counter, from) ==
    IF from = 0
    THEN IF counter.direction = 0 THEN RepStep(counter, 1) ELSE counter
    ELSE IF from = 1
         THEN IF counter.direction = 1 THEN RepStep(counter, 0) ELSE counter
         ELSE counter

\* The metrics dicts, built from the frame and the fields read from counter.
\* Jumping-jacks metrics whose status follows the whole predicate.
jumping_jacks_metrics_by_predicate(count, f) ==
    [count |-> count \div 2,
     form_score |-> IF arms_up(f) /\ legs_spread(f) THEN 95 ELSE 70,
     status |-> IF arms_up(f) /\ legs_spread(f) THEN "Up" ELSE "Down"]

jumping_jacks_metrics(count, f) ==
    [count |-> count \div 2,
     form_score |-> IF arms_up(f) /\ legs_spread(f) THEN 95 ELSE 70,
     status |-> IF arms_up(f) THEN "Up" ELSE "Down"]

\* Push-up metrics whose full form score starts at 160 degrees.
push_ups_metrics_inclusive(count, f) ==
    [count |-> count \div 2,
     arm_angle |-> f.arm_angle,
     body_angle |-> f.body_angle,
     form_score |-> IF 160 <= f.body_angle /\ f.body_angle < 190 THEN 100 ELSE 70]

push_ups_metrics(count, f) ==
    [count |-> count \div 2,
     arm_angle |-> f.arm_angle,
     body_angle |-> f.body_angle,
     form_score |-> IF 160 < f.body_angle /\ f.body_angle < 190 THEN 100 ELSE 70]

\* Sit-up metrics whose status is 'Up' at 90 degrees too.
sit_ups_metrics_inclusive(count, f) ==
    [count |-> count \div 2,
     angle |-> f.body_angle,
     status |-> IF f.body_angle <= 90 THEN "Up" ELSE "Down"]

sit_ups_metrics(count, f) ==
    [count |-> count \div 2,
     angle |-> f.body_angle,
     status |-> IF f.body_angle < 90 THEN "Up" ELSE "Down"]

rep_metrics(k, count, f) ==
    CASE k = "jumping_jacks" -> jumping_jacks_metrics(count, f)
      [] k = "push_ups" -> push_ups_metrics(count, f)
      [] k = "sit_ups" -> sit_ups_metrics(count, f)

process_jumping_jacks(counter, f) ==
    LET c == count_logic(counter, jumping_jacks_branch(f))
    IN  [counter |-> c, metrics |-> jumping_jacks_metrics(c.count, f)]

process_push_ups(counter, f) ==
    LET c == count_logic(counter, push_ups_branch(f))
    IN  [counter |-> c, metrics |-> push_ups_metrics(c.count, f)]

process_sit_ups(counter, f) ==
    LET c == count_logic(counter, sit_ups_branch(f))
    IN  [counter |-> c, metrics |-> sit_ups_metrics(c.count, f)]

in_plank(f) == 160 < f.ankle_angle /\ f.ankle_angle < 190

plank_metrics(current_hold, total, f) ==
    [current_hold |-> current_hold,
     total_time |-> total,
     body_angle |-> f.ankle_angle,
     in_position |-> in_plank(f)]

\* A plank step whose leaving frame keeps the elapsed time of the hold.
process_plank_keeping_elapsed(counter, f, t1, t2) ==
    LET started == IF counter.start_time = NoNumber
                   THEN [counter EXCEPT !.start_time = t1] ELSE counter
        c == IF in_plank(f)
             THEN [started EXCEPT !.elapsed = t2 - started.start_time]
             ELSE IF counter.start_time # NoNumber
                  THEN [start_time |-> NoNumber, elapsed |-> counter.elapsed,
                        total |-> counter.total + counter.elapsed]
                  ELSE counter
        current_hold == IF in_plank(f) THEN c.elapsed ELSE 0
    IN  [counter |-> c, metrics |-> plank_metrics(current_hold, c.total, f)]

\* A plank step that already adds the running hold to the total while the
\* subject is in position.
process_plank_adding_early(counter, f, t1, t2) ==
    LET started == IF counter.start_time = NoNumber
                   THEN [counter EXCEPT !.start_time = t1] ELSE counter
        c == IF in_plank(f)
             THEN [started EXCEPT !.elapsed = t2 - started.start_time,
                                  !.total = started.total + (t2 - started.start_time)]
             ELSE IF counter.start_time # NoNumber
                  THEN [start_time |-> NoNumber, elapsed |-> 0,
                        total |-> counter.total + counter.elapsed]
                  ELSE counter
        current_hold == IF in_plank(f) THEN c.elapsed ELSE 0
    IN  [counter |-> c, metrics |-> plank_metrics(current_hold, c.total, f)]

\* t1 and t2 are the two readings of time.time() (lines 174 and 175).
process_plank(counter, f, t1, t2) ==
    LET started == IF counter.start_time = NoNumber
                   THEN [counter EXCEPT !.start_time = t1] ELSE counter
        c == IF in_plank(f)
             THEN [started EXCEPT !.elapsed = t2 - started.start_time]
             ELSE IF counter.start_time # NoNumber
                  THEN [start_time |-> NoNumber, elapsed |-> 0,
                        total |-> counter.total + counter.elapsed]
                  ELSE counter
        current_hold == IF in_plank(f) THEN c.elapsed ELSE 0
    IN  [counter |-> c, metrics |-> plank_metrics(current_hold, c.total, f)]

vertical_jump_metrics(jump_height, max_height, jumps) ==
    [current_height |-> jump_height,
     max_height |-> max_height,
     jump_count |-> jumps]

\* A landing that counts the jump but keeps the peak.
process_vertical_jump_keeping_peak(counter, f) ==
    LET hip_y == f.hip_y
        based == IF counter.baseline = NoNumber
                 THEN [counter EXCEPT !.baseline = hip_y] ELSE counter
        jump_height == based.baseline - hip_y
        c == IF jump_height > 20
             THEN IF based.max_height < jump_height
                  THEN [based EXCEPT !.max_height = jump_height] ELSE based
             ELSE IF jump_height < 10 /\ based.max_height > 20
                  THEN [based EXCEPT !.jumps = based.jumps + 1]
                  ELSE based
    IN  [counter |-> c,
         metrics |-> vertical_jump_metrics(jump_height, c.max_height, c.jumps)]

\* A vertical-jump step whose peak is the latest height above 20px.
process_vertical_jump_latest_peak(counter, f) ==
    LET hip_y == f.hip_y
        based == IF counter.baseline = NoNumber
                 THEN [counter EXCEPT !.baseline = hip_y] ELSE counter
        jump_height == based.baseline - hip_y
        c == IF jump_height > 20
             THEN [based EXCEPT !.max_height = jump_height]
             ELSE IF jump_height < 10 /\ based.max_height > 20
                  THEN [based EXCEPT !.jumps = based.jumps + 1, !.max_height = 0]
                  ELSE based
    IN  [counter |-> c,
         metrics |-> vertical_jump_metrics(jump_height, c.max_height, c.jumps)]

\* A vertical-jump step that moves the baseline down to a lower hip.
process_vertical_jump_recalibrating(counter, f) ==
    LET hip_y == f.hip_y
        based == IF counter.baseline = NoNumber \/ hip_y > counter.baseline
                 THEN [counter EXCEPT !.baseline = hip_y] ELSE counter
        jump_height == based.baseline - hip_y
        c == IF jump_height > 20
             THEN IF based.max_height < jump_height
                  THEN [based EXCEPT !.max_height = jump_height] ELSE based
             ELSE IF jump_height < 10 /\ based.max_height > 20
                  THEN [based EXCEPT !.jumps = based.jumps + 1, !.max_height = 0]
                  ELSE based
    IN  [counter |-> c,
         metrics |-> vertical_jump_metrics(jump_height, c.max_height, c.jumps)]

process_vertical_jump(counter, f) ==
    LET hip_y == f.hip_y
        based == IF counter.baseline = NoNumber
                 THEN [counter EXCEPT !.baseline = hip_y] ELSE counter
        jump_height == based.baseline - hip_y
        c == IF jump_height > 20
             THEN IF based.max_height < jump_height
                  THEN [based EXCEPT !.max_height = jump_height] ELSE based
             ELSE IF jump_height < 10 /\ based.max_height > 20
                  THEN [based EXCEPT !.jumps = based.jumps + 1, !.max_height = 0]
                  ELSE based
    IN  [counter |-> c,
         metrics |-> vertical_jump_metrics(jump_height, c.max_height, c.jumps)]

\* Whether process_frame draws the pose on the frame it returns (lines 32-37):
\* it does for every frame with a pose, before and whatever the dispatch.
draw_landmarks(f) == f.detected

\* What process_frame returns when it dispatched to no processor (line 54).
no_processing_clearing(cs, exercise) ==
    [counters |-> IF exercise \in Kinds
                  THEN [cs EXCEPT ![exercise] = InitCounters[exercise]] ELSE cs,
     metrics |-> EmptyMetrics]

no_processing(cs, exercise) ==
    [counters |-> cs, metrics |-> EmptyMetrics]

\* A dispatch that clears the machines it does not route the frame to.
process_frame_clearing_others(cs, f, exercise, t1, t2) ==
    IF f.detected /\ exercise \in Kinds
    THEN LET r == CASE exercise = "jumping_jacks" ->
                         process_jumping_jacks(cs[exercise], f)
                    [] exercise = "push_ups" -> process_push_ups(cs[exercise], f)
                    [] exercise = "sit_ups" -> process_sit_ups(cs[exercise], f)
                    [] exercise = "plank" -> process_plank(cs[exercise], f, t1, t2)
                    [] exercise = "vertical_jump" ->
                         process_vertical_jump(cs[exercise], f)
         IN  [counters |-> [InitCounters EXCEPT ![exercise] = r.counter],
              metrics |-> r.metrics]
    ELSE no_processing(cs, exercise)

\* process_frame called while cs is stored: the counters afterwards and the
\* metrics returned.  t1, t2 are the clock readings a plank frame takes.
process_frame(cs, f, exercise, t1, t2) ==
    IF f.detected /\ exercise \in Kinds
    THEN LET r == CASE exercise = "jumping_jacks" ->
                         process_jumping_jacks(cs[exercise], f)
                    [] exercise = "push_ups" -> process_push_ups(cs[exercise], f)
                    [] exercise = "sit_ups" -> process_sit_ups(cs[exercise], f)
                    [] exercise = "plank" -> process_plank(cs[exercise], f, t1, t2)
                    [] exercise = "vertical_jump" ->
                         process_vertical_jump(cs[exercise], f)
         IN  [counters |-> [cs EXCEPT ![exercise] = r.counter],
              metrics |-> r.metrics]
    ELSE no_processing(cs, exercise)

\* np.arctan2(y, x) for the vectors whose direction is a multiple of 45
\* degrees, in units of pi/4; arctan2(0, 0) is 0.
arctan2(y, x) ==
    CASE y = 0 -> IF x >= 0 THEN 0 ELSE 4
      [] y > 0 -> IF x > 0 THEN 1 ELSE IF x = 0 THEN 2 ELSE 3
      [] y < 0 -> IF x > 0 THEN 0 - 1 ELSE IF x = 0 THEN 0 - 2 ELSE 0 - 3

\* np.abs
abs(v) == IF v < 0 THEN 0 - v ELSE v

\* calculate_angle without the reflection of values above 180.
calculate_angle_unreflected(a, b, c) ==
    LET radians == arctan2(c[2] - b[2], c[1] - b[1])
                   - arctan2(a[2] - b[2], a[1] - b[1])
    IN  abs(radians * 45)

\* calculate_angle(a, b, c) for points <<x, y>>; radians * 180.0 / np.pi of a
\* value in units of pi/4 is the value times 45.
calculate_angle(a, b, c) ==
    LET radians == arctan2(c[2] - b[2], c[1] - b[1])
                   - arctan2(a[2] - b[2], a[1] - b[1])
        angle == abs(radians * 45)
    IN  IF angle > 180 THEN 360 - angle ELSE angle

\* What reset_counter would store if it cleared the numbers but kept the phase.
reset_counter_partial(cs, exercise) ==
    CASE exercise \in RepKinds ->
           [cs EXCEPT ![exercise] = [@ EXCEPT !.count = 0]]
      [] exercise = "plank" ->
           [cs EXCEPT !["plank"] = [@ EXCEPT !.elapsed = 0, !.total = 0]]
      [] exercise = "vertical_jump" ->
           [cs EXCEPT !["vertical_jump"] = [@ EXCEPT !.max_height = 0, !.jumps = 0]]
      [] OTHER -> cs

\* reset_counter: the counters map afterwards.
reset_counter(cs, exercise) ==
    CASE exercise = "jumping_jacks" ->
           [cs EXCEPT !["jumping_jacks"] = [count |-> 0, direction |-> 0]]
      [] exercise = "push_ups" ->
           [cs EXCEPT !["push_ups"] = [count |-> 0, direction |-> 0]]
      [] exercise = "sit_ups" ->
           [cs EXCEPT !["sit_ups"] = [count |-> 0, direction |-> 0]]
      [] exercise = "plank" ->
           [cs EXCEPT !["plank"] = [start_time |-> NoNumber, elapsed |-> 0, total |-> 0]]
      [] exercise = "vertical_jump" ->
           [cs EXCEPT !["vertical_jump"] =
                [baseline |-> NoNumber, max_height |-> 0, jumps |-> 0]]
      [] OTHER -> cs

----------------------------------------------------------------------------
(* The generators' locals and the dicts they hold *)

\* A dict slot that holds nothing.
NoDict == [f \in {} |-> 0]

\* counter is the binding of process_*'s local `counter`: Unbound, Stored (the
\* dict self.counters[exercise] holds now) or the number of an orphan: a dict
\* that reset_counter has replaced in self.counters since the local was bound.
Unbound == 0 - 1
Stored == 0

IdleGen ==
    [pc |-> "idle", frame |-> NoPose, exercise |-> None, counter |-> Unbound,
     metrics |-> EmptyMetrics, tmp |-> 0, aux |-> 0]

\* Truthiness of the exercise value (`if current_exercise:`).
Truthy(e) == e # None

----------------------------------------------------------------------------
(* app.py, one request or one loop iteration at a time *)

Init ==
    /\ counters = InitCounters
    /\ current_exercise = None
    /\ session_data = NoDict
    /\ clock = 0
    /\ frames_read = 0
    /\ gen = [t \in Streams |-> IdleGen]
    /\ orphans = [s \in Streams |-> NoDict]
    /\ tape = <<>>

\* GET /video_feed: a client opens stream t.
video_feed(t) ==
    /\ gen[t].pc = "idle"
    /\ gen' = [gen EXCEPT ![t].pc = "loop"]
    /\ UNCHANGED <<counters, current_exercise, session_data, clock, frames_read,
                   orphans, tape>>

\* camera.read() fails: the loop breaks and the camera is released.
camera_fail(t) ==
    /\ gen[t].pc = "loop"
    /\ gen' = [gen EXCEPT ![t].pc = "idle"]
    /\ UNCHANGED <<counters, current_exercise, session_data, clock, frames_read,
                   orphans, tape>>

\* One iteration of generate_frames' loop on frame f, run without interruption;
\* dt is the time that passes between a plank frame's two clock readings.  The
\* locals frame and metrics are dead once the iteration has stored and yielded
\* them, so gen keeps no copy.
iteration(t, f, dt) ==
    /\ gen[t].pc = "loop"
    /\ IF Truthy(current_exercise)
       THEN LET r == process_frame(counters, f, current_exercise, clock, clock + dt)
            IN  /\ counters' = r.counters
                /\ session_data' =
                     (current_exercise :> [metrics |-> r.metrics]) @@ session_data
       ELSE UNCHANGED <<counters, session_data>>
    /\ clock' = clock + dt
    /\ UNCHANGED <<current_exercise, gen, orphans>>

\* The camera delivers some frame and the loop body runs on it.
frames(t, max_frames, max_time) ==
    /\ frames_read < max_frames
    /\ \E f \in FramesFor(current_exercise) : \E dt \in {0, 1} :
          /\ clock + dt <= max_time
          /\ iteration(t, f, dt)
    /\ frames_read' = frames_read + 1
    /\ UNCHANGED tape

generate_frames(t) ==
    frames(t, MaxFrames, MaxTime)

\* reset_counter on the live processor: the dict of a known kind is replaced, so
\* a local bound to the old dict keeps the old dict, which is an orphan from now.
FreeSlot == CHOOSE s \in Streams :
               /\ \A t \in Streams : gen[t].counter # s
               /\ \A u \in Streams : u < s => \E t \in Streams : gen[t].counter = u

Bound(t, k) == gen[t].counter = Stored /\ gen[t].exercise = k

\* A reset that zeroes the fields of the dict in place, which every call in
\* flight stays bound to.
do_reset_counter_in_place(exercise) ==
    /\ counters' = reset_counter(counters, exercise)
    /\ UNCHANGED <<orphans, gen>>

\* self.counters[exercise] = {...}: one store of a new dict; the calls in
\* flight keep the dict they bound, which is stored nowhere any more.
do_reset_counter(exercise) ==
    /\ counters' = reset_counter(counters, exercise)
    /\ IF exercise \in Kinds /\ \E t \in Streams : Bound(t, exercise)
       THEN /\ orphans' = [orphans EXCEPT ![FreeSlot] = counters[exercise]]
            /\ gen' = [t \in Streams |->
                         IF Bound(t, exercise)
                         THEN [gen[t] EXCEPT !.counter = FreeSlot] ELSE gen[t]]
       ELSE UNCHANGED <<orphans, gen>>

\* A selection that only records the kind.
set_exercise_keeping(k) ==
    /\ current_exercise' = k
    /\ UNCHANGED <<counters, orphans, gen, session_data, clock, frames_read, tape>>

\* POST /api/set_exercise with {'exercise': k}
set_exercise(k) ==
    /\ current_exercise' = k
    /\ do_reset_counter(k)
    /\ UNCHANGED <<session_data, clock, frames_read, tape>>

\* The JSON bodies the three API routes return.
set_exercise_response(k) ==
    [status |-> "success", exercise |-> k]

get_metrics_response ==
    IF Truthy(current_exercise) /\ current_exercise \in DOMAIN session_data
    THEN [exercise |-> current_exercise,
          metrics |-> session_data[current_exercise].metrics]
    ELSE [exercise |-> None, metrics |-> EmptyMetrics]

reset_exercise_response ==
    [status |-> "success"]

\* GET /api/get_metrics reads and changes nothing.
get_metrics ==
    UNCHANGED vars

\* GET /api/reset
reset_exercise ==
    /\ IF Truthy(current_exercise)
       THEN do_reset_counter(current_exercise)
       ELSE UNCHANGED <<counters, orphans, gen>>
    /\ UNCHANGED <<current_exercise, session_data, clock, frames_read, tape>>

\* Time passes; the wall clock that time.time() reads can also be set back.
advance(max_time) ==
    /\ clock < max_time
    /\ clock' = clock + 1
    /\ UNCHANGED <<counters, current_exercise, session_data, frames_read, gen,
                   orphans, tape>>

tick ==
    advance(MaxTime)

clock_set_back ==
    /\ clock > 0
    /\ clock' = clock - 1
    /\ UNCHANGED <<counters, current_exercise, session_data, frames_read, gen,
                   orphans, tape>>

\* One client's stream, requests served one at a time.
Next ==
    \/ video_feed(1)
    \/ camera_fail(1)
    \/ generate_frames(1)
    \/ \E k \in Requested : set_exercise(k)
    \/ get_metrics
    \/ reset_exercise
    \/ tick
    \/ clock_set_back

Spec == Init /\ [][Next]_vars

----------------------------------------------------------------------------
(* A long session with one exercise: the client has selected k and opened the *)
(* stream, and from then on only frames, resets and metric reads follow.      *)

SessionInit ==
    /\ counters = InitCounters
    /\ current_exercise \in Kinds \cup {Unrecognized}
    /\ session_data = NoDict
    /\ clock = 0
    /\ frames_read = 0
    /\ gen = [t \in Streams |-> IF t = 1 THEN [IdleGen EXCEPT !.pc = "loop"]
                                         ELSE IdleGen]
    /\ orphans = [s \in Streams |-> NoDict]
    /\ tape = <<>>

session_frames ==
    frames(1, MaxSession, MaxSessionTime)

session_tick ==
    advance(MaxSessionTime)

SessionNext ==
    \/ session_frames
    \/ reset_exercise
    \/ get_metrics
    \/ session_tick
    \/ clock_set_back

SessionSpec == SessionInit /\ [][SessionNext]_vars

----------------------------------------------------------------------------
(* A scripted run: the exercise is selected, the stream is open, and the     *)
(* camera delivers the frames of a tape fixed in advance, one per iteration. *)

JJDown == [Pose EXCEPT !.hip_distance = 100]
JJArmsOnly == [Pose EXCEPT !.left_arm_up = TRUE, !.right_arm_up = TRUE,
                           !.hip_distance = 100]
JJOpen == [Pose EXCEPT !.left_arm_up = TRUE, !.right_arm_up = TRUE,
                       !.hip_distance = 101]

ScriptKinds == {"jumping_jacks", "vertical_jump"}

ScriptFrames(k) ==
    IF k = "jumping_jacks"
    THEN {NoPose, JJDown, JJArmsOnly, JJOpen}
    ELSE {[Pose EXCEPT !.hip_y = y] : y \in {70, 75, 85, 100}}

Tapes(frames_of, n) == UNION {[1..m -> frames_of] : m \in 0..n}

ScriptInit ==
    /\ counters = InitCounters
    /\ current_exercise \in ScriptKinds
    /\ tape \in Tapes(ScriptFrames(current_exercise), MaxTape)
    /\ session_data = NoDict
    /\ clock = 0
    /\ frames_read = 0
    /\ gen = [t \in Streams |-> IF t = 1 THEN [IdleGen EXCEPT !.pc = "loop"]
                                         ELSE IdleGen]
    /\ orphans = [s \in Streams |-> NoDict]

script_frame ==
    /\ frames_read < Len(tape)
    /\ iteration(1, tape[frames_read + 1], 0)
    /\ frames_read' = frames_read + 1
    /\ UNCHANGED tape

ScriptNext == script_frame

ScriptSpec == ScriptInit /\ [][ScriptNext]_vars

----------------------------------------------------------------------------
(* A timed plank run: plank is selected, the stream is open, and the camera  *)
(* delivers the frames of a tape fixed in advance, each at its own instant   *)
(* of the clock.                                                             *)

PlankIn == [Pose EXCEPT !.ankle_angle = 180]
PlankOut == [Pose EXCEPT !.ankle_angle = 160]

Instants == 0..MaxInstant

\* The i-th instant of S in increasing order.
Nth(S, i) == CHOOSE n \in S : Cardinality({m \in S : m < n}) = i - 1

\* The tapes: frames in or out of position at strictly increasing instants.
TimedTapes ==
    UNION {{[i \in 1..Cardinality(S) |->
               [at |-> Nth(S, i),
                frame |-> IF Nth(S, i) \in held THEN PlankIn ELSE PlankOut]] :
              held \in SUBSET S} :
           S \in SUBSET Instants}

TimedInit ==
    /\ counters = InitCounters
    /\ current_exercise = "plank"
    /\ tape \in TimedTapes
    /\ session_data = NoDict
    /\ clock = 0
    /\ frames_read = 0
    /\ gen = [t \in Streams |-> IF t = 1 THEN [IdleGen EXCEPT !.pc = "loop"]
                                         ELSE IdleGen]
    /\ orphans = [s \in Streams |-> NoDict]

\* The frame due now is read and processed.
timed_frame ==
    /\ frames_read < Len(tape)
    /\ tape[frames_read + 1].at = clock
    /\ iteration(1, tape[frames_read + 1].frame, 0)
    /\ frames_read' = frames_read + 1
    /\ UNCHANGED tape

\* Time passes until the next frame is due.
timed_tick ==
    /\ frames_read < Len(tape)
    /\ tape[frames_read + 1].at > clock
    /\ clock' = clock + 1
    /\ UNCHANGED <<counters, current_exercise, session_data, frames_read, gen,
                   orphans, tape>>

TimedNext ==
    \/ timed_frame
    \/ timed_tick

TimedSpec == TimedInit /\ [][TimedNext]_vars

----------------------------------------------------------------------------
(* Sit-ups from landmarks: sit_ups is selected, the stream is open, and the  *)
(* camera delivers one frame whose shoulder, hip and knee are the tape.      *)

Points == (0..MaxCoord) \X (0..MaxCoord)

\* The direction from q to p is a multiple of 45 degrees (or p is q).
Octant(p, q) ==
    \/ p[1] = q[1]
    \/ p[2] = q[2]
    \/ abs(p[1] - q[1]) = abs(p[2] - q[2])

\* <<shoulder, hip, knee>> in pixels (landmarks 11, 23 and 25 scaled by w, h).
LandmarkSets ==
    {l \in Points \X Points \X Points : Octant(l[1], l[2]) /\ Octant(l[3], l[2])}

\* The frame as process_sit_ups sees it.
sit_ups_frame(l) ==
    [Pose EXCEPT !.body_angle = calculate_angle(l[1], l[2], l[3])]

AngleInit ==
    /\ counters = InitCounters
    /\ current_exercise = "sit_ups"
    /\ tape \in {<<l>> : l \in LandmarkSets}
    /\ session_data = NoDict
    /\ clock = 0
    /\ frames_read = 0
    /\ gen = [t \in Streams |-> IF t = 1 THEN [IdleGen EXCEPT !.pc = "loop"]
                                         ELSE IdleGen]
    /\ orphans = [s \in Streams |-> NoDict]

angle_frame ==
    /\ frames_read < Len(tape)
    /\ iteration(1, sit_ups_frame(tape[frames_read + 1]), 0)
    /\ frames_read' = frames_read + 1
    /\ UNCHANGED tape

AngleNext == angle_frame

AngleSpec == AngleInit /\ [][AngleNext]_vars

----------------------------------------------------------------------------
(* Several streams at once.  Flask serves every request on a thread of its   *)
(* own, so the generators of all open /video_feed streams and the API         *)
(* handlers interleave between any two accesses to the shared objects.  Each  *)
(* action below is one such access by stream t, with the local computation    *)
(* that follows it; the API handlers, each a single store, stay whole.        *)

\* The dict stream t's local `counter` is bound to.
Deref(t) ==
    IF gen[t].counter = Stored
    THEN counters[gen[t].exercise]
    ELSE orphans[gen[t].counter]

\* Stream t moves on with locals g, storing nothing.
Goto(t, g) ==
    /\ gen' = [gen EXCEPT ![t] = g]
    /\ UNCHANGED <<counters, orphans, current_exercise, session_data, clock,
                   frames_read, tape>>

\* Stream t stores dict d through its binding and moves on with locals g.
Assign(t, d, g) ==
    /\ IF gen[t].counter = Stored
       THEN /\ counters' = [counters EXCEPT ![gen[t].exercise] = d]
            /\ UNCHANGED orphans
       ELSE /\ orphans' = [orphans EXCEPT ![gen[t].counter] = d]
            /\ UNCHANGED counters
    /\ gen' = [gen EXCEPT ![t] = g]
    /\ UNCHANGED <<current_exercise, session_data, clock, frames_read, tape>>

\* The orphans once stream t has dropped its binding: a dict nothing is bound
\* to any more is gone.
Released(t) ==
    LET s == gen[t].counter
    IN  IF s \in Streams /\ \A u \in Streams \ {t} : gen[u].counter # s
        THEN [orphans EXCEPT ![s] = NoDict]
        ELSE orphans

\* process_* returns metrics m to generate_frames.
Return(t, m) ==
    /\ gen' = [gen EXCEPT ![t] = [IdleGen EXCEPT !.pc = "store", !.metrics = m]]
    /\ orphans' = Released(t)
    /\ UNCHANGED <<counters, current_exercise, session_data, clock, frames_read,
                   tape>>

\* camera.read() and `if current_exercise:` (lines 25-32).
conc_read(t) ==
    /\ gen[t].pc = "loop"
    /\ frames_read < MaxConcFrames
    /\ frames_read' = frames_read + 1
    /\ \E f \in FramesFor(current_exercise) :
          gen' = [gen EXCEPT ![t] =
                    IF Truthy(current_exercise)
                    THEN [IdleGen EXCEPT !.pc = "call", !.frame = f]
                    ELSE [IdleGen EXCEPT !.pc = "loop"]]
    /\ UNCHANGED <<counters, orphans, current_exercise, session_data, clock, tape>>

\* process_frame(frame, current_exercise) up to `counter = self.counters[...]`
\* (lines 33, 25-52 and the first line of process_*).
conc_call(t) ==
    /\ gen[t].pc = "call"
    /\ LET e == current_exercise
           entry == CASE e \in RepKinds -> "rep_test"
                      [] e = "plank" -> "plank_test"
                      [] e = "vertical_jump" -> "jump_test"
                      [] OTHER -> "store"
       IN  Goto(t, IF gen[t].frame.detected /\ e \in Kinds
                   THEN [gen[t] EXCEPT !.pc = entry, !.exercise = e,
                                       !.counter = Stored]
                   ELSE [IdleGen EXCEPT !.pc = "store"])

\* `if counter['direction'] == 0:` or `== 1:` (lines 76-81, 111-116, 141-146)
rep_test(t) ==
    /\ gen[t].pc = "rep_test"
    /\ LET from == branch(gen[t].exercise, gen[t].frame)
       IN  Goto(t, [gen[t] EXCEPT !.pc = IF from # NoNumber
                                            /\ Deref(t).direction = from
                                         THEN "rep_read" ELSE "rep_return"])

\* counter['count'] += 0.5: the read
rep_read(t) ==
    /\ gen[t].pc = "rep_read"
    /\ Goto(t, [gen[t] EXCEPT !.pc = "rep_add", !.tmp = Deref(t).count])

\* counter['count'] += 0.5: the store
rep_add(t) ==
    /\ gen[t].pc = "rep_add"
    /\ Assign(t, [Deref(t) EXCEPT !.count = gen[t].tmp + Half],
                 [gen[t] EXCEPT !.pc = "rep_flip", !.tmp = 0])

\* counter['direction'] = 1 or = 0
rep_flip(t) ==
    /\ gen[t].pc = "rep_flip"
    /\ Assign(t, [Deref(t) EXCEPT !.direction =
                     IF branch(gen[t].exercise, gen[t].frame) = 0 THEN 1 ELSE 0],
                 [gen[t] EXCEPT !.pc = "rep_return"])

\* metrics = {'count': int(counter['count']), ...}; return
rep_return(t) ==
    /\ gen[t].pc = "rep_return"
    /\ Return(t, rep_metrics(gen[t].exercise, Deref(t).count, gen[t].frame))

\* `if counter['start_time'] is None:` / `is not None:` (lines 172-177)
plank_test(t) ==
    /\ gen[t].pc = "plank_test"
    /\ LET unset == Deref(t).start_time = NoNumber
       IN  Goto(t, [gen[t] EXCEPT !.pc =
                      IF in_plank(gen[t].frame)
                      THEN IF unset THEN "plank_start" ELSE "plank_now"
                      ELSE IF unset THEN "plank_return" ELSE "plank_total"])

\* counter['start_time'] = time.time()
plank_start(t) ==
    /\ gen[t].pc = "plank_start"
    /\ Assign(t, [Deref(t) EXCEPT !.start_time = clock],
                 [gen[t] EXCEPT !.pc = "plank_now"])

\* time.time() of line 175
plank_now(t) ==
    /\ gen[t].pc = "plank_now"
    /\ Goto(t, [gen[t] EXCEPT !.pc = "plank_since", !.aux = clock])

\* ... - counter['start_time']; a None read here (another stream has left the
\* position meanwhile) is a TypeError that ends the generator.
plank_since(t) ==
    /\ gen[t].pc = "plank_since"
    /\ IF Deref(t).start_time = NoNumber
       THEN /\ gen' = [gen EXCEPT ![t] = IdleGen]
            /\ orphans' = Released(t)
            /\ UNCHANGED <<counters, current_exercise, session_data, clock,
                           frames_read, tape>>
       ELSE Goto(t, [gen[t] EXCEPT !.pc = "plank_elapsed",
                                   !.tmp = gen[t].aux - Deref(t).start_time,
                                   !.aux = 0])

\* counter['elapsed'] = ...
plank_elapsed(t) ==
    /\ gen[t].pc = "plank_elapsed"
    /\ Assign(t, [Deref(t) EXCEPT !.elapsed = gen[t].tmp],
                 [gen[t] EXCEPT !.pc = "plank_return", !.tmp = 0])

\* counter['total'] += counter['elapsed']: the read of total
plank_total(t) ==
    /\ gen[t].pc = "plank_total"
    /\ Goto(t, [gen[t] EXCEPT !.pc = "plank_total_add", !.tmp = Deref(t).total])

\* ... the read of elapsed
plank_total_add(t) ==
    /\ gen[t].pc = "plank_total_add"
    /\ Goto(t, [gen[t] EXCEPT !.pc = "plank_total_store",
                              !.tmp = gen[t].tmp + Deref(t).elapsed])

\* ... the store of total
plank_total_store(t) ==
    /\ gen[t].pc = "plank_total_store"
    /\ Assign(t, [Deref(t) EXCEPT !.total = gen[t].tmp],
                 [gen[t] EXCEPT !.pc = "plank_clear_start", !.tmp = 0])

\* counter['start_time'] = None
plank_clear_start(t) ==
    /\ gen[t].pc = "plank_clear_start"
    /\ Assign(t, [Deref(t) EXCEPT !.start_time = NoNumber],
                 [gen[t] EXCEPT !.pc = "plank_clear_elapsed"])

\* counter['elapsed'] = 0
plank_clear_elapsed(t) ==
    /\ gen[t].pc = "plank_clear_elapsed"
    /\ Assign(t, [Deref(t) EXCEPT !.elapsed = 0],
                 [gen[t] EXCEPT !.pc = "plank_return"])

\* current_hold = counter['elapsed'] if in_plank else 0
plank_return(t) ==
    /\ gen[t].pc = "plank_return"
    /\ Goto(t, [gen[t] EXCEPT !.pc = "plank_return_total",
                              !.aux = IF in_plank(gen[t].frame)
                                      THEN Deref(t).elapsed ELSE 0])

\* metrics = {..., 'total_time': int(counter['total']), ...}; return
plank_return_total(t) ==
    /\ gen[t].pc = "plank_return_total"
    /\ Return(t, plank_metrics(gen[t].aux, Deref(t).total, gen[t].frame))

\* `if counter['baseline'] is None:`
jump_test(t) ==
    /\ gen[t].pc = "jump_test"
    /\ Goto(t, [gen[t] EXCEPT !.pc = IF Deref(t).baseline = NoNumber
                                     THEN "jump_base" ELSE "jump_height"])

\* counter['baseline'] = hip_y
jump_base(t) ==
    /\ gen[t].pc = "jump_base"
    /\ Assign(t, [Deref(t) EXCEPT !.baseline = gen[t].frame.hip_y],
                 [gen[t] EXCEPT !.pc = "jump_height"])

\* jump_height = counter['baseline'] - hip_y, and the tests on it alone
jump_height(t) ==
    /\ gen[t].pc = "jump_height"
    /\ LET h == Deref(t).baseline - gen[t].frame.hip_y
       IN  Goto(t, [gen[t] EXCEPT !.aux = h,
                                  !.pc = IF h > 20 THEN "jump_peak_test"
                                         ELSE IF h < 10 THEN "jump_land_test"
                                         ELSE "jump_return"])

\* `if counter['max_height'] < jump_height:`
jump_peak_test(t) ==
    /\ gen[t].pc = "jump_peak_test"
    /\ Goto(t, [gen[t] EXCEPT !.pc = IF Deref(t).max_height < gen[t].aux
                                     THEN "jump_peak_store" ELSE "jump_return"])

\* counter['max_height'] = jump_height
jump_peak_store(t) ==
    /\ gen[t].pc = "jump_peak_store"
    /\ Assign(t, [Deref(t) EXCEPT !.max_height = gen[t].aux],
                 [gen[t] EXCEPT !.pc = "jump_return"])

\* `... and counter['max_height'] > 20:`
jump_land_test(t) ==
    /\ gen[t].pc = "jump_land_test"
    /\ Goto(t, [gen[t] EXCEPT !.pc = IF Deref(t).max_height > 20
                                     THEN "jump_count_read" ELSE "jump_return"])

\* counter['jumps'] += 1: the read
jump_count_read(t) ==
    /\ gen[t].pc = "jump_count_read"
    /\ Goto(t, [gen[t] EXCEPT !.pc = "jump_count_store", !.tmp = Deref(t).jumps])

\* counter['jumps'] += 1: the store
jump_count_store(t) ==
    /\ gen[t].pc = "jump_count_store"
    /\ Assign(t, [Deref(t) EXCEPT !.jumps = gen[t].tmp + 1],
                 [gen[t] EXCEPT !.pc = "jump_peak_clear", !.tmp = 0])

\* counter['max_height'] = 0
jump_peak_clear(t) ==
    /\ gen[t].pc = "jump_peak_clear"
    /\ Assign(t, [Deref(t) EXCEPT !.max_height = 0],
                 [gen[t] EXCEPT !.pc = "jump_return"])

\* metrics = {..., 'max_height': int(counter['max_height']), ...
jump_return(t) ==
    /\ gen[t].pc = "jump_return"
    /\ Goto(t, [gen[t] EXCEPT !.pc = "jump_return_count",
                              !.tmp = Deref(t).max_height])

\* ..., 'jump_count': counter['jumps']}; return
jump_return_count(t) ==
    /\ gen[t].pc = "jump_return_count"
    /\ Return(t, vertical_jump_metrics(gen[t].aux, gen[t].tmp, Deref(t).jumps))

\* session_data['exercises'][current_exercise] = {...}; yield (lines 36-46)
conc_store(t) ==
    /\ gen[t].pc = "store"
    /\ session_data' =
         (current_exercise :> [metrics |-> gen[t].metrics]) @@ session_data
    /\ gen' = [gen EXCEPT ![t] = [IdleGen EXCEPT !.pc = "loop"]]
    /\ UNCHANGED <<counters, orphans, current_exercise, clock, frames_read, tape>>

ConcInit ==
    /\ counters = InitCounters
    /\ current_exercise \in Kinds
    /\ session_data = NoDict
    /\ clock = 0
    /\ frames_read = 0
    /\ gen = [t \in Streams |-> [IdleGen EXCEPT !.pc = "loop"]]
    /\ orphans = [s \in Streams |-> NoDict]
    /\ tape = <<>>

\* One access of stream t to the shared objects between reading a frame and
\* yielding it.
stream_work(t) ==
    \/ conc_call(t)
    \/ rep_test(t)
    \/ rep_read(t)
    \/ rep_add(t)
    \/ rep_flip(t)
    \/ rep_return(t)
    \/ plank_test(t)
    \/ plank_start(t)
    \/ plank_now(t)
    \/ plank_since(t)
    \/ plank_elapsed(t)
    \/ plank_total(t)
    \/ plank_total_add(t)
    \/ plank_total_store(t)
    \/ plank_clear_start(t)
    \/ plank_clear_elapsed(t)
    \/ plank_return(t)
    \/ plank_return_total(t)
    \/ jump_test(t)
    \/ jump_base(t)
    \/ jump_height(t)
    \/ jump_peak_test(t)
    \/ jump_peak_store(t)
    \/ jump_land_test(t)
    \/ jump_count_read(t)
    \/ jump_count_store(t)
    \/ jump_peak_clear(t)
    \/ jump_return(t)
    \/ jump_return_count(t)
    \/ conc_store(t)

ConcNext ==
    \/ \E t \in Streams : conc_read(t) \/ stream_work(t)
    \/ reset_exercise
    \/ get_metrics
    \/ tick

ConcSpec == ConcInit /\ [][ConcNext]_vars

----------------------------------------------------------------------------
(* One stream whose loop interleaves with the selection requests that Flask *)
(* serves on other threads.                                                  *)

\* The requests still to arrive are the tape, in order of arrival.
SwitchInit ==
    /\ counters = InitCounters
    /\ current_exercise = None
    /\ session_data = NoDict
    /\ clock = 0
    /\ frames_read = 0
    /\ gen = [t \in Streams |-> IF t = 1 THEN [IdleGen EXCEPT !.pc = "loop"]
                                         ELSE IdleGen]
    /\ orphans = [s \in Streams |-> NoDict]
    /\ tape \in Tapes(Requested, MaxRequests)

\* POST /api/set_exercise: the next request arrives and is served whole.
switch_exercise ==
    /\ tape # <<>>
    /\ current_exercise' = Head(tape)
    /\ do_reset_counter(Head(tape))
    /\ tape' = Tail(tape)
    /\ UNCHANGED <<session_data, clock, frames_read>>

SwitchNext ==
    \/ conc_read(1)
    \/ stream_work(1)
    \/ switch_exercise

SwitchSpec == SwitchInit /\ [][SwitchNext]_vars

----------------------------------------------------------------------------
(* Claims *)

\* A frame step: the camera delivered a frame and the loop body ran on it.
FrameStep == frames_read' = frames_read + 1

\* C1: for jumping_jacks, push_ups and sit_ups, a processed frame (with or
\* without detection) never lowers the stored repetitions value.
C1_CountNeverDecreases ==
    [][FrameStep => \A k \in RepKinds : counters'[k].count >= counters[k].count]_vars

\* A full repetition has been counted, frame by frame.
C1_Witness ==
    \E k \in RepKinds : current_exercise = k /\ counters[k].count >= 2 * Half

\* C3: a frame without detection returns the empty metrics record and leaves
\* every field of every exercise's counter unchanged, whatever is selected.
C3_NoDetectionNoChange ==
    [][\A dt \in {0, 1} :
          iteration(1, NoPose, dt) =>
             /\ counters' = counters
             /\ Truthy(current_exercise) =>
                   session_data'[current_exercise].metrics = EmptyMetrics]_vars

\* A frame without detection was processed for a kind that has history.
C3_Witness ==
    /\ current_exercise \in Kinds
    /\ current_exercise \in DOMAIN session_data
    /\ session_data[current_exercise].metrics = EmptyMetrics
    /\ counters[current_exercise] # InitCounters[current_exercise]

ZeroRecord(k, m) ==
    \/ m = EmptyMetrics
    \/ /\ m # EmptyMetrics
       /\ CASE k \in RepKinds -> m.count = 0
            [] k = "plank" -> m.current_hold = 0 /\ m.total_time = 0
            [] k = "vertical_jump" -> m.max_height = 0 /\ m.jump_count = 0

\* C5: right after a reset of the current kind, get_metrics returns that
\* kind's zero-valued record, never a count produced before the reset.
C5_ResetThenZeroMetrics ==
    [][(reset_exercise /\ current_exercise \in Kinds) =>
          ZeroRecord(current_exercise, get_metrics_response'.metrics)]_vars

\* C6: reset_counter(k) for a known kind stores exactly what __init__ stores for
\* k and leaves every other kind alone; for any other value it changes nothing.
C6_ResetReplacesWhole ==
    [][\A k \in Requested :
          (set_exercise(k) \/ (reset_exercise /\ current_exercise = k)) =>
             counters' = IF k \in Kinds
                         THEN [counters EXCEPT ![k] = InitCounters[k]]
                         ELSE counters]_vars

\* The current kind is zeroed after it had left its first phase, and another
\* kind still holds a non-zero state.
C6_Witness ==
    \E k \in {"plank", "vertical_jump"} : \E j \in Kinds \ {k} :
       /\ current_exercise = k
       /\ counters[k] = InitCounters[k]
       /\ k \in DOMAIN session_data
       /\ session_data[k].metrics # EmptyMetrics
       /\ counters[j] # InitCounters[j]

\* C7: selecting an unrecognized kind leaves the active exercise as it was and
\* does not report success.
C7_UnknownKindRejected ==
    [][set_exercise(Unrecognized) =>
          /\ current_exercise' = current_exercise
          /\ set_exercise_response(Unrecognized).status # "success"]_vars

\* The frames of the tape processed so far.
Played == SubSeq(tape, 1, frames_read)

\* The jumping-jacks predicate of a frame: arms up and legs spread.
JJPredicate(f) ==
    f.detected /\ f.left_arm_up /\ f.right_arm_up /\ f.hip_distance > 100

\* Closed->Open->Closed cycles of the predicate over the frames with a pose,
\* from phase Closed: the places where it falls from true to false.
Cycles(fs) ==
    LET p == SelectSeq(fs, LAMBDA f : f.detected)
    IN  Cardinality({i \in 1..(Len(p) - 1) : JJPredicate(p[i]) /\ ~JJPredicate(p[i + 1])})

\* C2: from the reset state, jumping-jacks frames whose predicate has gone
\* through N Closed->Open->Closed cycles give a reported count of N, however
\* many frames sample each phase.
C2_CyclesCounted ==
    current_exercise = "jumping_jacks" =>
       /\ counters["jumping_jacks"].count \div 2 = Cycles(Played)
       /\ (frames_read > 0 /\ tape[frames_read].detected) =>
             session_data["jumping_jacks"].metrics.count = Cycles(Played)

\* Two cycles, with phases sampled more than once, have been played.
C2_Witness ==
    /\ current_exercise = "jumping_jacks"
    /\ frames_read = Len(tape)
    /\ Cycles(Played) = 2
    /\ \E i \in 1..(Len(tape) - 1) : tape[i] = tape[i + 1] /\ tape[i].detected

\* Height of frame i of the tape above the baseline its first frame sets.
HeightAt(i) == tape[1].hip_y - tape[i].hip_y

\* The frames played so far rise from the baseline to 30px above it and
\* return to the baseline, each in any number of samples.
RiseAndReturn ==
    /\ current_exercise = "vertical_jump"
    /\ frames_read >= 3
    /\ HeightAt(frames_read) = 0
    /\ \E p \in 2..(frames_read - 1) :
          /\ HeightAt(p) = 30
          /\ \A i \in 1..(p - 1) : 0 <= HeightAt(i) /\ HeightAt(i) <= HeightAt(i + 1)
          /\ \A i \in p..(frames_read - 1) : HeightAt(i) >= HeightAt(i + 1)

\* C10: a hip trace that sets a baseline, rises to 30px above it and returns
\* to it counts exactly one jump and ends with max_height 0.
C10_OneJumpPerRise ==
    RiseAndReturn =>
       /\ counters["vertical_jump"].jumps = 1
       /\ counters["vertical_jump"].max_height = 0
       /\ session_data["vertical_jump"].metrics.jump_count = 1
       /\ session_data["vertical_jump"].metrics.max_height = 0

\* Such a trace has been played with the rise and the return sampled twice.
C10_Witness ==
    /\ RiseAndReturn
    /\ frames_read >= 6

\* Stream t is inside a process_* call, its `counter` bound.
InFlight(t) == gen[t].counter # Unbound

\* Stream t holds a dict that a reset has replaced.
Detached(t) == gen[t].counter \in Streams

\* C8: once a reset of kind K has returned, the state stored for K is the
\* whole zero-valued state, every call for K that was in flight is left with
\* the replaced dict, and no later step of such a call changes what is stored:
\* the stored state only takes writes of calls that started after the reset.
C8_ResetAtomic ==
    [][/\ (reset_exercise /\ current_exercise \in Kinds) =>
            /\ counters'[current_exercise] = InitCounters[current_exercise]
            /\ \A t \in Streams :
                  (InFlight(t) /\ gen[t].exercise = current_exercise) =>
                      /\ Detached(t)'
                      /\ orphans'[gen'[t].counter] = Deref(t)
       /\ \A t \in Streams :
            (Detached(t) /\ gen'[t] # gen[t]) => counters' = counters]_vars

\* A call about to store a half-repetition holds a replaced dict that has
\* counted, while the stored state of its kind has been counting from zero.
C8_Witness ==
    \E t \in Streams :
       /\ gen[t].pc = "rep_add"
       /\ Detached(t)
       /\ orphans[gen[t].counter].count > 0
       /\ counters[gen[t].exercise].count < orphans[gen[t].counter].count

\* C9: at no time are two process_frame calls at work on the processor's
\* state.
C9_SingleWriter ==
    Cardinality({t \in Streams : InFlight(t)}) <= 1

\* Two streams have read the same count of the same stored dict and are each
\* about to store it plus a half.
C9_LostHalf ==
    \E t \in Streams : \E u \in Streams \ {t} :
       /\ gen[t].pc = "rep_add" /\ gen[u].pc = "rep_add"
       /\ gen[t].counter = Stored /\ gen[u].counter = Stored
       /\ gen[t].exercise = gen[u].exercise
       /\ gen[t].tmp = gen[u].tmp

\* The vertical-jump state after the first i frames of the tape, every one of
\* which shows a pose.
RECURSIVE JumpAfter(_)
JumpAfter(i) ==
    IF i = 0
    THEN InitCounters["vertical_jump"]
    ELSE process_vertical_jump(JumpAfter(i - 1), tape[i]).counter

\* Frame i of the tape counted a jump.
Landed(i) == JumpAfter(i).jumps > JumpAfter(i - 1).jumps

\* C11: from the zero state a reset leaves, jumps never decreases, grows by at
\* most 1 per frame, and between any two frames that count a jump lies a frame
\* whose jump_height exceeded 20px.
C11_JumpsCountedOnce ==
    current_exercise = "vertical_jump" =>
       /\ counters["vertical_jump"] = JumpAfter(frames_read)
       /\ \A i \in 1..frames_read :
             JumpAfter(i).jumps - JumpAfter(i - 1).jumps \in {0, 1}
       /\ \A i \in 1..frames_read : \A j \in (i + 1)..frames_read :
             (Landed(i) /\ Landed(j)) =>
                 \E m \in (i + 1)..(j - 1) : HeightAt(m) > 20

\* Two jumps have been counted.
C11_Witness ==
    /\ current_exercise = "vertical_jump"
    /\ counters["vertical_jump"].jumps = 2

\* The plank state after the first i frames of timed tape s, each processed
\* at its instant.
RECURSIVE PlankAfter(_, _)
PlankAfter(s, i) ==
    IF i = 0
    THEN InitCounters["plank"]
    ELSE process_plank(PlankAfter(s, i - 1), s[i].frame, s[i].at, s[i].at).counter

\* Timed tape s films a subject who is in position from instant a until just
\* before instant b and at no other time: it has a frame of the hold and ends
\* with a frame after it.
SamplesHold(s, a, b) ==
    /\ \A i \in 1..Len(s) : in_plank(s[i].frame) <=> (a <= s[i].at /\ s[i].at < b)
    /\ \E i \in 1..Len(s) : in_plank(s[i].frame)
    /\ Len(s) > 0 /\ s[Len(s)].at >= b

\* C12: for fixed entry and exit instants of a hold, the total stored after
\* the subject has left is the same for every sampling of the hold.
C12_SamplingIndependent ==
    frames_read = Len(tape) =>
       \A a \in Instants : \A b \in Instants :
          (a < b /\ SamplesHold(tape, a, b)) =>
             \A s \in TimedTapes :
                SamplesHold(s, a, b) =>
                   PlankAfter(s, Len(s)).total = counters["plank"].total

\* C13: a plank frame changes total only when it leaves position with a hold
\* in progress, and then by exactly the elapsed value held before the frame.
C13_TotalChangesOnLeaving ==
    [][\A f \in FramesFor("plank") : \A dt \in {0, 1} :
          (current_exercise = "plank" /\ iteration(1, f, dt)) =>
              counters'["plank"].total =
                 IF f.detected /\ ~in_plank(f)
                    /\ counters["plank"].start_time # NoNumber
                 THEN counters["plank"].total + counters["plank"].elapsed
                 ELSE counters["plank"].total]_vars

\* A hold that lasted has been left and a new one is running.
C13_Witness ==
    /\ current_exercise = "plank"
    /\ counters["plank"].total > 0
    /\ counters["plank"].start_time # NoNumber
    /\ counters["plank"].elapsed > 0

\* C14: the hold in progress is never negative and the total, which starts at
\* zero, never falls below it, whatever happens to the clock between frames.
C14_MonotonicTimer ==
    /\ counters["plank"].elapsed >= 0
    /\ counters["plank"].total >= 0
    /\ ("plank" \in DOMAIN session_data
        /\ session_data["plank"].metrics # EmptyMetrics) =>
           /\ session_data["plank"].metrics.current_hold >= 0
           /\ session_data["plank"].metrics.total_time >= 0

\* C15: with no exercise selected, or one that is not a known kind, a loop
\* iteration returns the frame as it was read, produces the empty metrics
\* record and changes no counter and no entry of the session metrics.
C15_UnselectedNoEffect ==
    [][\A f \in FramesFor(current_exercise) : \A dt \in {0, 1} :
          (current_exercise \notin Kinds /\ iteration(1, f, dt)) =>
              /\ counters' = counters
              /\ session_data' = session_data
              /\ process_frame(counters, f, current_exercise, clock, clock + dt).metrics
                    = EmptyMetrics
              /\ Truthy(current_exercise) => ~draw_landmarks(f)]_vars

\* The keys of the metrics dict that kind k's processor builds.
MetricsKeys(k) ==
    CASE k \in RepKinds -> DOMAIN rep_metrics(k, 0, Pose)
      [] k = "plank" -> DOMAIN plank_metrics(0, 0, Pose)
      [] k = "vertical_jump" -> DOMAIN vertical_jump_metrics(0, 0, 0)

\* C16: the metrics stored for kind K come from a process_frame call that was
\* dispatched with exercise K: they are the empty record of a call that found
\* no pose, or a record with the keys K's processor builds.
C16_MetricsOfOwnKind ==
    \A k \in Kinds \cap DOMAIN session_data :
       \/ session_data[k].metrics = EmptyMetrics
       \/ DOMAIN session_data[k].metrics = MetricsKeys(k)

\* C17: a loop iteration on a frame with a pose, with known kind K selected,
\* leaves the counters of the other four kinds as they were.
C17_RoutesToOwnMachine ==
    [][\A f \in FramesFor(current_exercise) : \A dt \in {0, 1} :
          (current_exercise \in Kinds /\ f.detected /\ iteration(1, f, dt)) =>
              \A j \in Kinds \ {current_exercise} : counters'[j] = counters[j]]_vars

\* The selected kind's machine has moved while another kind's machine holds
\* state of an earlier selection.
C17_Witness ==
    /\ current_exercise \in Kinds
    /\ counters[current_exercise] # InitCounters[current_exercise]
    /\ \E j \in Kinds \ {current_exercise} : counters[j] # InitCounters[j]

\* C18: for the three repetition kinds, a frame that moves the phase from
\* Closed (0) to Open (1) reports the integer count unchanged, and a frame
\* that moves it from Open to Closed reports it one higher.
C18_CountOnPhaseExit ==
    [][\A f \in FramesFor(current_exercise) : \A dt \in {0, 1} :
          (current_exercise \in RepKinds /\ f.detected /\ iteration(1, f, dt)) =>
              LET before == counters[current_exercise]
                  after == counters'[current_exercise]
                  reported == session_data'[current_exercise].metrics.count
              IN  /\ (before.direction = 0 /\ after.direction = 1) =>
                         reported = before.count \div 2
                  /\ (before.direction = 1 /\ after.direction = 0) =>
                         reported = (before.count \div 2) + 1]_vars

\* A second repetition has been completed and reported.
C18_Witness ==
    /\ current_exercise \in RepKinds
    /\ counters[current_exercise] = [count |-> 4 * Half, direction |-> 0]
    /\ session_data[current_exercise].metrics # EmptyMetrics
    /\ session_data[current_exercise].metrics.count = 2

\* C19: a push-up frame in phase 0 with elbow angle < 90 adds 0.5 and sets
\* phase 1; in phase 1 with elbow angle > 160 it adds 0.5 and sets phase 0;
\* every other frame, any with the angle in [90, 160] among them, leaves
\* count and phase as they were.
C19_PushUpsStep ==
    [][\A f \in FramesFor("push_ups") : \A dt \in {0, 1} :
          (current_exercise = "push_ups" /\ f.detected /\ iteration(1, f, dt)) =>
              LET c == counters["push_ups"]
              IN  counters'["push_ups"] =
                     IF c.direction = 0 /\ f.arm_angle < 90
                     THEN [count |-> c.count + Half, direction |-> 1]
                     ELSE IF c.direction = 1 /\ f.arm_angle > 160
                          THEN [count |-> c.count + Half, direction |-> 0]
                          ELSE c]_vars

\* Push-ups have gone down and up twice.
C19_Witness ==
    /\ current_exercise = "push_ups"
    /\ counters["push_ups"] = [count |-> 4 * Half, direction |-> 0]
    /\ session_data["push_ups"].metrics # EmptyMetrics
    /\ session_data["push_ups"].metrics.arm_angle > 160

\* C20: a sit-up frame in phase 0 with torso angle < 90 adds 0.5 and sets
\* phase 1; in phase 1 with angle > 150 it adds 0.5 and sets phase 0; a frame
\* with the angle in [90, 150] changes nothing; and the status reported is
\* 'Up' exactly when the frame's angle is < 90, whatever the stored phase.
C20_SitUpsStep ==
    [][\A f \in FramesFor("sit_ups") : \A dt \in {0, 1} :
          (current_exercise = "sit_ups" /\ f.detected /\ iteration(1, f, dt)) =>
              LET c == counters["sit_ups"]
              IN  /\ counters'["sit_ups"] =
                        IF c.direction = 0 /\ f.body_angle < 90
                        THEN [count |-> c.count + Half, direction |-> 1]
                        ELSE IF c.direction = 1 /\ f.body_angle > 150
                             THEN [count |-> c.count + Half, direction |-> 0]
                             ELSE c
                  /\ (90 <= f.body_angle /\ f.body_angle <= 150) =>
                        counters'["sit_ups"] = c
                  /\ session_data'["sit_ups"].metrics.status =
                        IF f.body_angle < 90 THEN "Up" ELSE "Down"]_vars

\* A sit-up frame at 90 degrees has been reported 'Down' while the stored
\* phase is 1.
C20_Witness ==
    /\ current_exercise = "sit_ups"
    /\ counters["sit_ups"].direction = 1
    /\ "sit_ups" \in DOMAIN session_data
    /\ session_data["sit_ups"].metrics # EmptyMetrics
    /\ session_data["sit_ups"].metrics.angle = 90
    /\ session_data["sit_ups"].metrics.status = "Down"

\* C21: a jumping-jacks frame reports form_score 95 exactly when both wrists
\* are above their shoulders and the hips are more than 100px apart, else 70,
\* and status 'Up' exactly when both wrists are above their shoulders; a frame
\* with the arms up and the legs not spread leaves the phase Closed.
C21_JumpingJacksMetrics ==
    [][\A f \in FramesFor("jumping_jacks") : \A dt \in {0, 1} :
          (current_exercise = "jumping_jacks" /\ f.detected /\ iteration(1, f, dt)) =>
              LET up == f.left_arm_up /\ f.right_arm_up
                  spread == f.hip_distance > 100
                  m == session_data'["jumping_jacks"].metrics
              IN  /\ m.form_score = IF up /\ spread THEN 95 ELSE 70
                  /\ m.status = IF up THEN "Up" ELSE "Down"
                  /\ (up /\ ~spread) =>
                        counters'["jumping_jacks"].direction = 0]_vars

\* An arms-up frame with the legs together has closed an open phase and is
\* reported 'Up' with form score 70.
C21_Witness ==
    /\ current_exercise = "jumping_jacks"
    /\ counters["jumping_jacks"] = [count |-> 2 * Half, direction |-> 0]
    /\ session_data["jumping_jacks"].metrics # EmptyMetrics
    /\ session_data["jumping_jacks"].metrics.status = "Up"
    /\ session_data["jumping_jacks"].metrics.form_score = 70

\* C22: a push-up frame reports form_score 100 exactly when the body angle is
\* strictly between 160 and 190, else 70, and count and phase after the frame
\* are what they would be for any other body angle.
C22_PushUpsFormScore ==
    [][\A f \in FramesFor("push_ups") : \A dt \in {0, 1} :
          (current_exercise = "push_ups" /\ f.detected /\ iteration(1, f, dt)) =>
              /\ session_data'["push_ups"].metrics.form_score =
                    IF 160 < f.body_angle /\ f.body_angle < 190 THEN 100 ELSE 70
              /\ \A b \in {0, 160, 161, 180} :
                    counters'["push_ups"] =
                       process_push_ups(counters["push_ups"],
                                        [f EXCEPT !.body_angle = b]).counter]_vars

\* A push-up frame at body angle 160 has moved the phase and scored 70.
C22_Witness ==
    /\ current_exercise = "push_ups"
    /\ counters["push_ups"].count > 0
    /\ session_data["push_ups"].metrics # EmptyMetrics
    /\ session_data["push_ups"].metrics.body_angle = 160
    /\ session_data["push_ups"].metrics.form_score = 70

\* C23: a plank frame in position sets start_time to the time of the frame
\* when it was unset and keeps it otherwise, and sets elapsed to the time now
\* minus start_time; a frame out of position with start_time set clears
\* start_time and sets elapsed to 0; and every frame out of position reports
\* current_hold 0.
C23_PlankTransitions ==
    [][\A f \in FramesFor("plank") : \A dt \in {0, 1} :
          (current_exercise = "plank" /\ f.detected /\ iteration(1, f, dt)) =>
              LET c == counters["plank"]
                  d == counters'["plank"]
                  held == 160 < f.ankle_angle /\ f.ankle_angle < 190
              IN  /\ held =>
                        /\ d.start_time = IF c.start_time = NoNumber
                                          THEN clock ELSE c.start_time
                        /\ d.elapsed = clock' - d.start_time
                  /\ (~held /\ c.start_time # NoNumber) =>
                        /\ d.start_time = NoNumber
                        /\ d.elapsed = 0
                  /\ (~held /\ c.start_time = NoNumber) => d = c
                  /\ ~held =>
                        session_data'["plank"].metrics.current_hold = 0]_vars

\* A hold that lasted has just been left.
C23_Witness ==
    /\ current_exercise = "plank"
    /\ counters["plank"].start_time = NoNumber
    /\ counters["plank"].total > 0
    /\ session_data["plank"].metrics # EmptyMetrics
    /\ ~session_data["plank"].metrics.in_position
    /\ session_data["plank"].metrics.total_time = counters["plank"].total

\* The last frame of the open stream showed no pose while plank was selected.
DetectionLost ==
    /\ "plank" \in DOMAIN session_data
    /\ session_data["plank"].metrics = EmptyMetrics

\* C24: the first in-position frame after a run of frames without a pose, in
\* the middle of a hold, does not add the time that passed during the run to
\* the hold: it adds at most the time the frame itself takes.
C24_LossDoesNotAdvanceTimer ==
    [][\A f \in FramesFor("plank") : \A dt \in {0, 1} :
          (/\ current_exercise = "plank"
           /\ DetectionLost
           /\ counters["plank"].start_time # NoNumber
           /\ in_plank(f)
           /\ iteration(1, f, dt)) =>
              counters'["plank"].elapsed <= counters["plank"].elapsed + dt]_vars

\* C25: the first vertical-jump frame with a pose after creation or a reset
\* sets baseline to the frame's hip height, reports current_height 0 and
\* counts no jump; every later frame leaves baseline as it is.
C25_BaselineSetOnce ==
    [][\A f \in FramesFor("vertical_jump") : \A dt \in {0, 1} :
          (current_exercise = "vertical_jump" /\ f.detected /\ iteration(1, f, dt)) =>
              LET c == counters["vertical_jump"]
                  d == counters'["vertical_jump"]
                  m == session_data'["vertical_jump"].metrics
              IN  /\ c.baseline = NoNumber =>
                        /\ d.baseline = f.hip_y
                        /\ m.current_height = 0
                        /\ d.jumps = 0 /\ m.jump_count = 0
                  /\ c.baseline # NoNumber => d.baseline = c.baseline]_vars

\* The hip has been filmed below and above the baseline, which stayed.
C25_Witness ==
    /\ current_exercise = "vertical_jump"
    /\ counters["vertical_jump"].baseline = 95
    /\ counters["vertical_jump"].jumps > 0
    /\ session_data["vertical_jump"].metrics # EmptyMetrics
    /\ session_data["vertical_jump"].metrics.current_height < 0

\* The last frame played so far that counted a jump, 0 if none did.
LastLanding ==
    LET landings == {i \in 1..frames_read : Landed(i)}
    IN  IF landings = {} THEN 0
        ELSE CHOOSE i \in landings : \A j \in landings : j <= i

\* The heights above 20px seen since the last landing.
PeaksSinceLanding ==
    {HeightAt(i) : i \in {j \in (LastLanding + 1)..frames_read : HeightAt(j) > 20}}

\* C26: a frame with jump_height > 20 makes max_height the larger of itself
\* and jump_height and leaves jumps; a frame with 10 <= jump_height <= 20, or
\* with jump_height < 10 while max_height <= 20, changes neither; so
\* max_height is the largest jump_height above 20 seen since the last landing
\* or reset, 0 if there was none.
C26_PeakTracking ==
    current_exercise = "vertical_jump" =>
       /\ counters["vertical_jump"] = JumpAfter(frames_read)
       /\ \A i \in 1..frames_read :
             LET c == JumpAfter(i - 1)
                 d == JumpAfter(i)
                 h == HeightAt(i)
             IN  /\ h > 20 =>
                       /\ d.max_height = IF c.max_height < h THEN h ELSE c.max_height
                       /\ d.jumps = c.jumps
                 /\ (h <= 20 /\ (h >= 10 \/ c.max_height <= 20)) =>
                       /\ d.max_height = c.max_height
                       /\ d.jumps = c.jumps
       /\ counters["vertical_jump"].max_height =
             IF PeaksSinceLanding = {} THEN 0
             ELSE CHOOSE h \in PeaksSinceLanding : \A g \in PeaksSinceLanding : g <= h

\* After a landing the hip has risen to 30px and come down to 25px, and the
\* peak is still 30.
C26_Witness ==
    /\ current_exercise = "vertical_jump"
    /\ frames_read >= 2
    /\ LastLanding > 0
    /\ HeightAt(frames_read) = 25
    /\ counters["vertical_jump"].max_height = 30

\* The unsigned interior angle at b between the rays to a and to c, from the
\* dot and cross products of the two rays (both of them nonzero).
InteriorAngle(a, b, c) ==
    LET ux == a[1] - b[1]
        uy == a[2] - b[2]
        vx == c[1] - b[1]
        vy == c[2] - b[2]
        dot == ux * vx + uy * vy
        cross == ux * vy - uy * vx
    IN  CASE cross = 0 -> IF dot > 0 THEN 0 ELSE 180
          [] dot = 0 -> 90
          [] dot > 0 -> 45
          [] dot < 0 -> 135

\* C27: calculate_angle returns a number in [0, 180] for every triple of
\* points, degenerate ones included; for rays that both exist it is the
\* interior angle at the vertex; and the angle in the metrics record is in
\* [0, 180] as well.
C27_AngleInRange ==
    \A i \in 1..Len(tape) :
       LET a == tape[i][1]
           b == tape[i][2]
           c == tape[i][3]
           v == calculate_angle(a, b, c)
       IN  /\ v \in 0..180
           /\ (a # b /\ c # b) => v = InteriorAngle(a, b, c)
           /\ i <= frames_read =>
                 /\ session_data["sit_ups"].metrics.angle = v
                 /\ session_data["sit_ups"].metrics.angle \in 0..180

\* A frame whose two ray directions differ by more than 180 degrees has been
\* reported.
C27_Witness ==
    /\ frames_read = 1
    /\ Len(tape) = 1
    /\ calculate_angle_unreflected(tape[1][1], tape[1][2], tape[1][3]) > 180
    /\ session_data["sit_ups"].metrics.angle = 90

\* Point p mirrored left-right in a frame MaxCoord wide, and scaled by k.
Reflected(p) == <<MaxCoord - p[1], p[2]>>

Scaled(p, k) == <<k * p[1], k * p[2]>>

\* C28: calculate_angle is the same for three points and for their left-right
\* mirror images, and the same when all coordinates are multiplied by one
\* positive factor.
C28_AngleInvariant ==
    \A i \in 1..Len(tape) :
       LET a == tape[i][1]
           b == tape[i][2]
           c == tape[i][3]
           v == calculate_angle(a, b, c)
       IN  /\ calculate_angle(Reflected(a), Reflected(b), Reflected(c)) = v
           /\ \A k \in {2, 3} :
                 calculate_angle(Scaled(a, k), Scaled(b, k), Scaled(c, k)) = v
           /\ i <= frames_read =>
                 session_data["sit_ups"].metrics.angle =
                    sit_ups_frame(<<Reflected(a), Reflected(b), Reflected(c)>>).body_angle

\* C29: with one frame producer, for the three repetition kinds direction is
\* 1 exactly when count is a whole number plus 0.5 and 0 exactly when count
\* is a whole number.
C29_PhaseIsParity ==
    \A k \in RepKinds : counters[k].direction = counters[k].count % (2 * Half)

\* A repetition and a half have been counted: the selected kind is in phase
\* Open.
C29_Witness ==
    /\ current_exercise \in RepKinds
    /\ counters[current_exercise] = [count |-> 3 * Half, direction |-> 1]

\* C30: the stored vertical-jump state has max_height 0 or above 20, and
\* while its baseline is unset its max_height and jumps are 0.
C30_PeakZeroOrHigh ==
    LET c == counters["vertical_jump"]
    IN  /\ c.max_height = 0 \/ c.max_height > 20
        /\ c.baseline = NoNumber => (c.max_height = 0 /\ c.jumps = 0)

\* A reset has left the stored state without baseline while a call in flight
\* still holds the replaced dict with its peak.
C30_Witness ==
    /\ counters["vertical_jump"].baseline = NoNumber
    /\ \E t \in Streams :
          /\ Detached(t)
          /\ gen[t].exercise = "vertical_jump"
          /\ orphans[gen[t].counter].max_height > 20

\* C31: whenever no process_plank call is under way, the stored plank state
\* has elapsed 0 if its start_time is unset.
C31_NoHoldNoElapsed ==
    (\A t \in Streams : ~(InFlight(t) /\ gen[t].exercise = "plank")) =>
       (counters["plank"].start_time = NoNumber =>
           counters["plank"].elapsed = 0)

====
